---- MODULE Spec2Model ----
(***************************************************************************)
(* Control flow of examples/extformer_moe/extformer_moe_enso_train.py:     *)
(* main(cfg) dispatches on cfg.mode to train(cfg) or evaluate(cfg);        *)
(* train(cfg) optionally runs the RNC pretrain stage and then the main     *)
(* task.  Every statement of the driver that constructs a framework        *)
(* object, assigns a local, sets model.rnc_pretrain_flag or calls a        *)
(* solver is one step.  A call into the framework (ppsci, paddle) is       *)
(* modelled by its call and its return; what it does inside is not part    *)
(* of the driver.                                                          *)
(*                                                                         *)
(* A path string is a sequence of symbols: "/" is the separator, every     *)
(* other symbol stands for a piece of text that holds no separator.        *)
(***************************************************************************)
EXTENDS Naturals, Sequences, FiniteSets

\* Longest cfg.output_dir, in symbols.
MaxDirLen == 3

SEP == "/"

\* Symbols cfg.output_dir is written with.
DirAlphabet == {SEP, "o", "r"}

\* Values of cfg.mode: the two the driver knows and two it does not.
Modes == {"train", "eval", "export", ""}

SeqsUpTo(S, n) == UNION {[1..k -> S] : k \in 0..n}

OutputDirs == SeqsUpTo(DirAlphabet, MaxDirLen)

Cfgs ==
    [mode : Modes,
     use_rnc : BOOLEAN,
     rnc_pretrain : BOOLEAN,
     load_rnc_pretrain_params : BOOLEAN,
     output_dir : OutputDirs]

(***************************************************************************)
(* os.path.join and string concatenation                                   *)
(***************************************************************************)

\* posixpath.join(a, b): b replaces a when b is absolute; otherwise b is
\* appended, after a separator unless a is empty or already ends with one.
Join2(a, b) ==
    IF b # <<>> /\ Head(b) = SEP THEN b
    ELSE IF a = <<>> \/ a[Len(a)] = SEP THEN a \o b
    ELSE a \o <<SEP>> \o b

\* os.path.join(a, b, c)
Join3(a, b, c) == Join2(Join2(a, b), c)

\* os.path.join(cfg.output_dir, "rnc_pretrain"), the pretrain solver's
\* output directory.
RncOutputDir(c) == Join2(c.output_dir, <<"rnc_pretrain">>)

\* The checkpoint path with "rnc_pretrain" left out: the main solver's own
\* checkpoint directory, not the pretrain stage's.
RncBestModelPathOfMainDir(c) ==
    Join2(c.output_dir, <<"checkpoints">>) \o <<SEP, "best_model.pdparams">>

\* os.path.join(cfg.output_dir, "rnc_pretrain", "checkpoints")
\*     + "/best_model.pdparams"
RncBestModelPath(c) ==
    Join3(c.output_dir, <<"rnc_pretrain">>, <<"checkpoints">>)
        \o <<SEP, "best_model.pdparams">>

(***************************************************************************)
(* What a path string names: whether it is absolute, and the sequence of   *)
(* its components (the maximal separator-free runs of symbols).            *)
(***************************************************************************)
IsAbs(p) == p # <<>> /\ Head(p) = SEP

RECURSIVE SplitFrom(_, _, _)
SplitFrom(p, i, cur) ==
    IF i > Len(p) THEN (IF cur = <<>> THEN <<>> ELSE <<cur>>)
    ELSE IF p[i] = SEP
         THEN (IF cur = <<>> THEN <<>> ELSE <<cur>>) \o SplitFrom(p, i + 1, <<>>)
         ELSE SplitFrom(p, i + 1, Append(cur, p[i]))

Components(p) == SplitFrom(p, 1, <<>>)

\* The path named by "<dir>/<names[1]>/.../<names[n]>".
Names(dir, names) ==
    [abs |-> IsAbs(dir),
     parts |-> Components(dir) \o [i \in 1..Len(names) |-> <<names[i]>>]]

Denotes(p) == [abs |-> IsAbs(p), parts |-> Components(p)]

(***************************************************************************)
(* State                                                                   *)
(***************************************************************************)
VARIABLES
    cfg,                    \* the configuration main() is called with
    pc,                     \* the statement the driver is at
    entered,                \* the driver functions entered so far, in order
    constructed,            \* framework objects constructed so far
    model,                  \* the model object and its rnc_pretrain_flag
    pretrained_model_path,  \* train()'s local of that name
    rnc_solver,             \* train()'s pretrain solver
    solver,                 \* the main solver of train() or evaluate()
    calls,                  \* solver methods invoked so far, in order
    returned,               \* solver methods that returned so far, in order
    exc                     \* the exception main() ended with

vars == <<cfg, pc, entered, constructed, model, pretrained_model_path,
          rnc_solver, solver, calls, returned, exc>>

NoModel == [built |-> FALSE, rnc_pretrain_flag |-> FALSE]

Unbound == [tag |-> "unbound", path |-> <<>>]
NonePath == [tag |-> "None", path |-> <<>>]
StrPath(p) == [tag |-> "str", path |-> p]

NoSolver ==
    [built |-> FALSE, constraint |-> "None", validator |-> "None",
     output_dir |-> <<>>, pretrained_model_path |-> NonePath]

Init ==
    /\ cfg \in Cfgs
    /\ pc = "main_set_device"
    /\ entered = <<"main">>
    /\ constructed = {}
    /\ model = NoModel
    /\ pretrained_model_path = Unbound
    /\ rnc_solver = NoSolver
    /\ solver = NoSolver
    /\ calls = <<>>
    /\ returned = <<>>
    /\ exc = "none"

\* A statement that constructs the framework object `obj` and moves on.
Construct(at, obj, next) ==
    /\ pc = at
    /\ constructed' = constructed \cup {obj}
    /\ pc' = next
    /\ UNCHANGED <<cfg, entered, model, pretrained_model_path, rnc_solver,
                   solver, calls, returned, exc>>

\* A statement that invokes the solver method `m`.
CallSolver(at, m, inside) ==
    /\ pc = at
    /\ calls' = Append(calls, m)
    /\ pc' = inside
    /\ UNCHANGED <<cfg, entered, constructed, model, pretrained_model_path,
                   rnc_solver, solver, returned, exc>>

\* The solver method `m` returns to the driver.
ReturnSolver(inside, m, next) ==
    /\ pc = inside
    /\ returned' = Append(returned, m)
    /\ pc' = next
    /\ UNCHANGED <<cfg, entered, constructed, model, pretrained_model_path,
                   rnc_solver, solver, calls, exc>>

(***************************************************************************)
(* main                                                                    *)
(***************************************************************************)
MainSetDevice ==
    /\ pc = "main_set_device"
    /\ pc' = "main_dispatch"
    /\ UNCHANGED <<cfg, entered, constructed, model, pretrained_model_path,
                   rnc_solver, solver, calls, returned, exc>>

MainDispatchTrain ==
    /\ pc = "main_dispatch"
    /\ cfg.mode = "train"
    /\ entered' = Append(entered, "train")
    /\ pc' = "train_constraint"
    /\ UNCHANGED <<cfg, constructed, model, pretrained_model_path, rnc_solver,
                   solver, calls, returned, exc>>

MainDispatchEval ==
    /\ pc = "main_dispatch"
    /\ cfg.mode # "train"
    /\ cfg.mode = "eval"
    /\ entered' = Append(entered, "evaluate")
    /\ pc' = "eval_validator"
    /\ UNCHANGED <<cfg, constructed, model, pretrained_model_path, rnc_solver,
                   solver, calls, returned, exc>>

\* The dispatch written as if/else: every mode but "train" evaluates.
MainElseEvaluate ==
    /\ pc = "main_dispatch"
    /\ cfg.mode # "train"
    /\ cfg.mode # "eval"
    /\ entered' = Append(entered, "evaluate")
    /\ pc' = "eval_validator"
    /\ UNCHANGED <<cfg, constructed, model, pretrained_model_path, rnc_solver,
                   solver, calls, returned, exc>>

MainRaise ==
    /\ pc = "main_dispatch"
    /\ cfg.mode # "train"
    /\ cfg.mode # "eval"
    /\ exc' = "ValueError"
    /\ pc' = "raised"
    /\ UNCHANGED <<cfg, entered, constructed, model, pretrained_model_path,
                   rnc_solver, solver, calls, returned>>

(***************************************************************************)
(* train                                                                   *)
(***************************************************************************)
TrainConstraint == Construct("train_constraint", "sup_constraint", "train_validator")

TrainValidator == Construct("train_validator", "sup_validator", "train_model")

\* ppsci.arch.ExtFormerMoECuboid(...): the constructor is the framework's, and
\* the value it leaves in rnc_pretrain_flag is not the driver's to choose.
TrainModel ==
    /\ pc = "train_model"
    /\ \E f \in BOOLEAN : model' = [built |-> TRUE, rnc_pretrain_flag |-> f]
    /\ constructed' = constructed \cup {"model"}
    /\ pc' = "train_params"
    /\ UNCHANGED <<cfg, entered, pretrained_model_path, rnc_solver, solver,
                   calls, returned, exc>>

TrainParams ==
    Construct("train_params", "optimizer_grouped_parameters", "train_lr_scheduler")

TrainLrScheduler == Construct("train_lr_scheduler", "lr_scheduler", "train_optimizer")

TrainOptimizer == Construct("train_optimizer", "optimizer", "train_if_rnc")

\* if cfg.RNC.use_rnc and cfg.RNC.rnc_pretrain:
RncBranch(c) == c.use_rnc /\ c.rnc_pretrain

\* The test with its `not` dropped.
PretrainBranchNotDropped(c) == c.load_rnc_pretrain_params

\* if not cfg.RNC.load_rnc_pretrain_params:
PretrainBranch(c) == ~c.load_rnc_pretrain_params

TrainIfRncThen ==
    /\ pc = "train_if_rnc"
    /\ RncBranch(cfg)
    /\ pc' = "train_if_load"
    /\ UNCHANGED <<cfg, entered, constructed, model, pretrained_model_path,
                   rnc_solver, solver, calls, returned, exc>>

\* else: pretrained_model_path = None
TrainIfRncElse ==
    /\ pc = "train_if_rnc"
    /\ ~RncBranch(cfg)
    /\ pretrained_model_path' = NonePath
    /\ pc' = "train_clear_flag"
    /\ UNCHANGED <<cfg, entered, constructed, model, rnc_solver, solver,
                   calls, returned, exc>>

TrainIfLoadRun ==
    /\ pc = "train_if_load"
    /\ PretrainBranch(cfg)
    /\ pc' = "rnc_set_flag"
    /\ UNCHANGED <<cfg, entered, constructed, model, pretrained_model_path,
                   rnc_solver, solver, calls, returned, exc>>

TrainIfLoadSkip ==
    /\ pc = "train_if_load"
    /\ ~PretrainBranch(cfg)
    /\ pc' = "train_set_path"
    /\ UNCHANGED <<cfg, entered, constructed, model, pretrained_model_path,
                   rnc_solver, solver, calls, returned, exc>>

\* model.rnc_pretrain_flag = True
RncSetFlag ==
    /\ pc = "rnc_set_flag"
    /\ model' = [model EXCEPT !.rnc_pretrain_flag = TRUE]
    /\ pc' = "rnc_constraint"
    /\ UNCHANGED <<cfg, entered, constructed, pretrained_model_path,
                   rnc_solver, solver, calls, returned, exc>>

RncConstraint == Construct("rnc_constraint", "rnc_sup_constraint", "rnc_validator")

RncValidator == Construct("rnc_validator", "rnc_sup_validator", "rnc_solver")

\* rnc_solver = ppsci.solver.Solver(model, rnc_constraint,
\*     os.path.join(cfg.output_dir, "rnc_pretrain"), ..., validator=rnc_validator)
RncSolver ==
    /\ pc = "rnc_solver"
    /\ rnc_solver' = [built |-> TRUE,
                      constraint |-> "RNCSup",
                      validator |-> "RNCSup_Validator",
                      output_dir |-> RncOutputDir(cfg),
                      pretrained_model_path |-> NonePath]
    /\ constructed' = constructed \cup {"rnc_solver"}
    /\ pc' = "rnc_train"
    /\ UNCHANGED <<cfg, entered, model, pretrained_model_path, solver, calls,
                   returned, exc>>

RncTrainCall == CallSolver("rnc_train", "rnc_solver.train", "in_rnc_train")

RncTrainReturn == ReturnSolver("in_rnc_train", "rnc_solver.train", "rnc_eval")

\* The pretrain stage without its evaluation.
RncEvalCallMissing ==
    /\ pc = "rnc_eval"
    /\ pc' = "train_set_path"
    /\ UNCHANGED <<cfg, entered, constructed, model, pretrained_model_path,
                   rnc_solver, solver, calls, returned, exc>>

RncEvalCall == CallSolver("rnc_eval", "rnc_solver.eval", "in_rnc_eval")

RncEvalReturn == ReturnSolver("in_rnc_eval", "rnc_solver.eval", "train_set_path")

\* pretrained_model_path = os.path.join(cfg.output_dir, "rnc_pretrain",
\*     "checkpoints") + "/best_model.pdparams"
TrainSetPath ==
    /\ pc = "train_set_path"
    /\ pretrained_model_path' = StrPath(RncBestModelPath(cfg))
    /\ pc' = "train_clear_flag"
    /\ UNCHANGED <<cfg, entered, constructed, model, rnc_solver, solver,
                   calls, returned, exc>>

\* The main task without the reset of the flag.
TrainClearFlagMissing ==
    /\ pc = "train_clear_flag"
    /\ pc' = "train_solver"
    /\ UNCHANGED <<cfg, entered, constructed, model, pretrained_model_path,
                   rnc_solver, solver, calls, returned, exc>>

\* model.rnc_pretrain_flag = False
TrainClearFlag ==
    /\ pc = "train_clear_flag"
    /\ model' = [model EXCEPT !.rnc_pretrain_flag = FALSE]
    /\ pc' = "train_solver"
    /\ UNCHANGED <<cfg, entered, constructed, pretrained_model_path,
                   rnc_solver, solver, calls, returned, exc>>

\* solver = ppsci.solver.Solver(model, constraint, cfg.output_dir, ...,
\*     validator=validator, pretrained_model_path=pretrained_model_path)
TrainSolver ==
    /\ pc = "train_solver"
    /\ solver' = [built |-> TRUE,
                  constraint |-> "Sup",
                  validator |-> "Sup_Validator",
                  output_dir |-> cfg.output_dir,
                  pretrained_model_path |-> pretrained_model_path]
    /\ constructed' = constructed \cup {"solver"}
    /\ pc' = "train_train"
    /\ UNCHANGED <<cfg, entered, model, pretrained_model_path, rnc_solver,
                   calls, returned, exc>>

TrainTrainCall == CallSolver("train_train", "solver.train", "in_train")

TrainTrainReturn == ReturnSolver("in_train", "solver.train", "train_eval")

\* The main task without its evaluation.
TrainEvalCallMissing ==
    /\ pc = "train_eval"
    /\ pc' = "done"
    /\ UNCHANGED <<cfg, entered, constructed, model, pretrained_model_path,
                   rnc_solver, solver, calls, returned, exc>>

TrainEvalCall == CallSolver("train_eval", "solver.eval", "in_eval")

TrainEvalReturn == ReturnSolver("in_eval", "solver.eval", "done")

(***************************************************************************)
(* evaluate                                                                *)
(***************************************************************************)
EvalValidator == Construct("eval_validator", "sup_validator", "eval_model")

EvalModel ==
    /\ pc = "eval_model"
    /\ \E f \in BOOLEAN : model' = [built |-> TRUE, rnc_pretrain_flag |-> f]
    /\ constructed' = constructed \cup {"model"}
    /\ pc' = "eval_solver"
    /\ UNCHANGED <<cfg, entered, pretrained_model_path, rnc_solver, solver,
                   calls, returned, exc>>

\* solver = ppsci.solver.Solver(model, output_dir=cfg.output_dir, ...,
\*     validator=validator, pretrained_model_path=cfg.EVAL.pretrained_model_path)
EvalSolver ==
    /\ pc = "eval_solver"
    /\ solver' = [built |-> TRUE,
                  constraint |-> "None",
                  validator |-> "Sup_Validator",
                  output_dir |-> cfg.output_dir,
                  pretrained_model_path |-> StrPath(<<"cfg.EVAL.pretrained_model_path">>)]
    /\ constructed' = constructed \cup {"solver"}
    /\ pc' = "eval_eval"
    /\ UNCHANGED <<cfg, entered, model, pretrained_model_path, rnc_solver,
                   calls, returned, exc>>

EvalEvalCall == CallSolver("eval_eval", "solver.eval", "in_eval_eval")

EvalEvalReturn == ReturnSolver("in_eval_eval", "solver.eval", "done")

(***************************************************************************)
(* The driver                                                              *)
(***************************************************************************)
Next ==
    \/ MainSetDevice
    \/ MainDispatchTrain
    \/ MainDispatchEval
    \/ MainRaise
    \/ TrainConstraint
    \/ TrainValidator
    \/ TrainModel
    \/ TrainParams
    \/ TrainLrScheduler
    \/ TrainOptimizer
    \/ TrainIfRncThen
    \/ TrainIfRncElse
    \/ TrainIfLoadRun
    \/ TrainIfLoadSkip
    \/ RncSetFlag
    \/ RncConstraint
    \/ RncValidator
    \/ RncSolver
    \/ RncTrainCall
    \/ RncTrainReturn
    \/ RncEvalCall
    \/ RncEvalReturn
    \/ TrainSetPath
    \/ TrainClearFlag
    \/ TrainSolver
    \/ TrainTrainCall
    \/ TrainTrainReturn
    \/ TrainEvalCall
    \/ TrainEvalReturn
    \/ EvalValidator
    \/ EvalModel
    \/ EvalSolver
    \/ EvalEvalCall
    \/ EvalEvalReturn

Spec == Init /\ [][Next]_vars

(***************************************************************************)
(* Properties                                                              *)
(***************************************************************************)
Range(s) == {s[i] : i \in DOMAIN s}

Count(s, m) == Cardinality({i \in DOMAIN s : s[i] = m})

IsPrefix(s, t) == Len(s) <= Len(t) /\ \A i \in 1..Len(s) : s[i] = t[i]

InTrain == cfg.mode = "train"

InEvaluate == cfg.mode = "eval"

\* The flags under which the pretrain stage is run.
PretrainIsRun ==
    cfg.use_rnc /\ cfg.rnc_pretrain /\ ~cfg.load_rnc_pretrain_params

PretrainThenMain ==
    <<"rnc_solver.train", "rnc_solver.eval", "solver.train", "solver.eval">>

\* C1: when train(cfg) runs the pretrain stage, the solver calls are made in
\* the order rnc_solver.train, rnc_solver.eval, solver.train, solver.eval:
\* at every moment the calls made so far are a prefix of that order, a call
\* is made only when all earlier ones have returned, the main solver exists
\* only once the two pretrain calls have returned, and when train(cfg) is
\* done all four calls have been made and have returned.
C1_PretrainBeforeMain ==
    (InTrain /\ PretrainIsRun) =>
        /\ IsPrefix(calls, PretrainThenMain)
        /\ IsPrefix(returned, calls)
        /\ Len(calls) <= Len(returned) + 1
        /\ solver.built =>
              /\ Len(returned) >= 2
              /\ returned[1] = "rnc_solver.train"
              /\ returned[2] = "rnc_solver.eval"
        /\ (Len(calls) >= 3 => solver.built)
        /\ (pc = "done" => calls = PretrainThenMain /\ returned = PretrainThenMain)

C1_Witness ==
    /\ InTrain /\ PretrainIsRun
    /\ pc = "done"
    /\ solver.built /\ rnc_solver.built
    /\ returned = PretrainThenMain

\* C2: in train mode, whatever the RNC flags, the main solver's train() and
\* eval() are each called at most once at any moment and exactly once when
\* train(cfg) is done, and eval() is called only after train() has returned;
\* in eval mode no solver's train() is ever called, and eval() is called at
\* most once at any moment and exactly once when evaluate(cfg) is done.
C2_TrainOnceEvalOnce ==
    /\ InTrain =>
          /\ Count(calls, "solver.train") <= 1
          /\ Count(calls, "solver.eval") <= 1
          /\ ("solver.eval" \in Range(calls) => "solver.train" \in Range(returned))
          /\ pc = "done" =>
                /\ Count(calls, "solver.train") = 1
                /\ Count(calls, "solver.eval") = 1
                /\ Count(returned, "solver.train") = 1
                /\ Count(returned, "solver.eval") = 1
    /\ InEvaluate =>
          /\ "solver.train" \notin Range(calls)
          /\ "rnc_solver.train" \notin Range(calls)
          /\ IsPrefix(calls, <<"solver.eval">>)
          /\ (pc = "done" => calls = <<"solver.eval">> /\ returned = <<"solver.eval">>)

C2_Witness ==
    /\ InTrain
    /\ cfg.use_rnc /\ ~cfg.rnc_pretrain
    /\ pc = "done"
    /\ calls = <<"solver.train", "solver.eval">>
    /\ returned = calls

\* C3: main(cfg) in mode "train" enters train and never evaluate, in mode
\* "eval" enters evaluate and never train, and in every other mode ends with
\* ValueError having entered neither, constructed nothing and called no
\* solver.
C3_Dispatch ==
    LET dispatched == pc \notin {"main_set_device", "main_dispatch"} IN
    /\ InTrain =>
          /\ "evaluate" \notin Range(entered)
          /\ exc = "none" /\ pc # "raised"
          /\ (dispatched => entered = <<"main", "train">>)
    /\ InEvaluate =>
          /\ "train" \notin Range(entered)
          /\ exc = "none" /\ pc # "raised"
          /\ (dispatched => entered = <<"main", "evaluate">>)
    /\ (~InTrain /\ ~InEvaluate) =>
          /\ entered = <<"main">>
          /\ constructed = {}
          /\ ~model.built /\ ~solver.built /\ ~rnc_solver.built
          /\ calls = <<>>
          /\ (dispatched => pc = "raised" /\ exc = "ValueError")

C3_Witness ==
    /\ cfg.mode = "export"
    /\ pc = "raised"
    /\ exc = "ValueError"
    /\ constructed = {}

\* Something of the pretrain stage has happened.
PretrainTouched ==
    \/ rnc_solver.built
    \/ constructed \cap {"rnc_sup_constraint", "rnc_sup_validator", "rnc_solver"} # {}
    \/ Range(calls) \cap {"rnc_solver.train", "rnc_solver.eval"} # {}

\* C4: anything of the pretrain stage happens only in train(cfg) with use_rnc
\* and rnc_pretrain true and load_rnc_pretrain_params false; with those flags
\* the pretrain solver has been constructed, trained and evaluated by the
\* time the main solver is constructed, and with any other flags the pretrain
\* stage is untouched when train(cfg) is done.
C4_PretrainIffFlags ==
    /\ PretrainTouched => (InTrain /\ PretrainIsRun)
    /\ (InTrain /\ PretrainIsRun /\ solver.built) =>
          /\ rnc_solver.built
          /\ "rnc_solver.train" \in Range(returned)
          /\ "rnc_solver.eval" \in Range(returned)
    /\ (InTrain /\ ~PretrainIsRun /\ pc = "done") => ~PretrainTouched

C4_Witness ==
    /\ InTrain /\ PretrainIsRun
    /\ pc = "train_set_path"
    /\ rnc_solver.built
    /\ returned = <<"rnc_solver.train", "rnc_solver.eval">>

\* C5: in train(cfg) the main solver is given the pretrained_model_path
\* <cfg.output_dir>/rnc_pretrain/checkpoints/best_model.pdparams when use_rnc
\* and rnc_pretrain are both true, whether the pretrain stage ran or was
\* skipped, and None otherwise; when the pretrain stage ran, that path is
\* checkpoints/best_model.pdparams in the pretrain solver's output directory.
C5_PretrainedModelPath ==
    (InTrain /\ solver.built) =>
        IF cfg.use_rnc /\ cfg.rnc_pretrain
        THEN /\ solver.pretrained_model_path.tag = "str"
             /\ Denotes(solver.pretrained_model_path.path) =
                    Names(cfg.output_dir,
                          <<"rnc_pretrain", "checkpoints", "best_model.pdparams">>)
             /\ rnc_solver.built = ~cfg.load_rnc_pretrain_params
             /\ rnc_solver.built =>
                    Denotes(solver.pretrained_model_path.path) =
                        Names(rnc_solver.output_dir,
                              <<"checkpoints", "best_model.pdparams">>)
        ELSE solver.pretrained_model_path = NonePath

C5_Witness ==
    /\ InTrain
    /\ cfg.use_rnc /\ cfg.rnc_pretrain /\ cfg.load_rnc_pretrain_params
    /\ cfg.output_dir = <<"o", SEP>>
    /\ solver.built
    /\ ~rnc_solver.built
    /\ solver.pretrained_model_path =
           StrPath(<<"o", SEP, "rnc_pretrain", SEP, "checkpoints", SEP,
                     "best_model.pdparams">>)

\* C6: in train(cfg), model.rnc_pretrain_flag is True from the construction
\* of the pretrain solver until its eval() has returned, and False from the
\* construction of the main solver until its eval() has returned.
C6_FlagPerStage ==
    InTrain =>
        /\ (rnc_solver.built /\ "rnc_solver.eval" \notin Range(returned))
              => model.rnc_pretrain_flag = TRUE
        /\ (solver.built /\ "solver.eval" \notin Range(returned))
              => model.rnc_pretrain_flag = FALSE

C6_Witness ==
    /\ InTrain /\ PretrainIsRun
    /\ pc = "in_train"
    /\ rnc_solver.built /\ solver.built
    /\ model.rnc_pretrain_flag = FALSE

====
